---- MODULE Spec2Model ----
(***************************************************************************)
(* Model of the synchronization engine of sync_to_nas.py: SyncHandler      *)
(* (debounce timers, tombstones, in-flight flag, reconciliation scan),     *)
(* sync_existing_files and the start of main, over the SMB adapter's       *)
(* behaviour.                                                              *)
(*                                                                         *)
(* Time.  The code stores time.time() readings and only ever compares the  *)
(* difference of a reading with "now" against a threshold.  The model      *)
(* keeps every reading as the time elapsed since it was taken, saturated   *)
(* at the threshold it is compared with; Tick lets one second pass.        *)
(* A Timer is kept as the time left until its deadline.  Modification      *)
(* times are only compared with each other, so they are kept as ranks:     *)
(* a write gets a rank above all present ones.                             *)
(* stat / exists / list / delete calls are instantaneous; upload_file and  *)
(* download_file take an arbitrary time and can fail.                      *)
(***************************************************************************)
EXTENDS Integers, Sequences, FiniteSets, TLC

\* ------------------------------------------------------------------ bounds
MaxEnv == 1        \* user / external operations in one behaviour
MaxFaults == 1     \* adapter calls that fail in one behaviour
MaxTimers == 3     \* Timer objects alive at the same time
MaxCalls == 2      \* the call counters saturate here
MaxBurst == 3      \* user operations in a run of the debounce scenario
MaxDeleteOps == 2  \* user / external operations in a run of the deletion scenario
MaxTransfer == 1   \* seconds an upload_file or download_file call can take
MaxLiveOps == 1    \* user operations in a run of the progress scenario

\* ------------------------------------------------------- program constants
debounce_time == 1
delete_cooldown == 5
check_interval == 30

\* --------------------------------------------------------------- namespace
Files == {"a.txt", "d/b.txt"}
Dirs == {"d"}
Entries == Files \cup Dirs
Root == ""

Parent(e) == IF e = "d/b.txt" THEN "d" ELSE Root
Name(e) == IF e = "d/b.txt" THEN "b.txt" ELSE e
Join(dir, name) == IF dir = Root THEN name ELSE "d/b.txt"
Children(dir) == {e \in Entries : Parent(e) = dir}

Absent == [kind |-> "absent"]
DirEntry == [kind |-> "dir"]
FileEntry(m, c) == [kind |-> "file", mtime |-> m, content |-> c]

Exists(tree, e) == tree[e].kind # "absent"
IsFile(tree, e) == tree[e].kind = "file"
IsDir(tree, e) == tree[e].kind = "dir"
ParentOk(tree, e) == IF Parent(e) = Root THEN TRUE ELSE IsDir(tree, Parent(e))

Max(S) == CHOOSE x \in S : \A y \in S : y <= x
Sat(n, cap) == IF n >= cap THEN cap ELSE n + 1

\* modification times as ranks
Mtimes(l, r) == {l[f].mtime : f \in {g \in Files : IsFile(l, g)}}
                  \cup {r[f].mtime : f \in {g \in Files : IsFile(r, g)}}
NewMtime(l, r) == Max(Mtimes(l, r) \cup {0}) + 1
Rank(M, m) == Cardinality({x \in M : x <= m})
Rerank(tree, M) ==
  [e \in Entries |-> IF tree[e].kind = "file"
                       THEN FileEntry(Rank(M, tree[e].mtime), tree[e].content)
                       ELSE tree[e]]

\* removing an entry removes what is below it
RemoveEntry(tree, e) ==
  [x \in Entries |-> IF x = e \/ Parent(x) = e THEN Absent ELSE tree[x]]
\* writing a file creates the missing parent directories
PutFile(tree, f, entry) ==
  [x \in Entries |-> IF x = f THEN entry
                     ELSE IF x = Parent(f) /\ ~Exists(tree, x) THEN DirEntry
                     ELSE tree[x]]

VARIABLES
  sync_direction, sync_deletes,   \* configuration, fixed for a run
  phase,                          \* main: "connect", "initial", "watch", "stopped", "exited"
  exit_status,                    \* the status the process ends with, -1 until then
  connected,                      \* protocol._connected
  walk,                           \* sync_existing_files: files still to visit
  local, remote,                  \* the two trees
  events,                         \* watchdog events not yet dispatched
  timers, pending_timers,         \* Timer objects and SyncHandler.pending_timers
  syncing_from_remote,            \* SyncHandler._syncing_from_remote
  recently_deleted,               \* SyncHandler._recently_deleted
  since_check,                    \* main: time.time() - last_check
  scan,                           \* _scan_remote_directory frames (top first)
  dl,                             \* the download_file call in progress
  calls,                          \* history: adapter calls made, per operation and path
  hist                            \* history: what the claims need to name their cases

vars == <<sync_direction, sync_deletes, phase, exit_status, connected, walk, local, remote, events,
          timers, pending_timers, syncing_from_remote, recently_deleted,
          since_check, scan, dl, calls, hist>>

config == <<sync_direction, sync_deletes>>
proc == <<exit_status, connected>>

EveryDirectionUploads == TRUE
EveryDirectionScans == TRUE
LocalToRemote == sync_direction \in {"local-to-nas", "two-way"}
RemoteToLocal == sync_direction \in {"two-way", "nas-to-local"}

CallOps == {"upload_file", "download_file", "delete_file"}
NoDl == [path |-> "", data |-> 0, remaining |-> 0]
FreeTimer == [st |-> "free", path |-> "", remaining |-> 0, data |-> 0, cur |-> FALSE]
TimerIds == 1..MaxTimers

\* ------------------------------------------------------------------- Init
NoTree == [e \in Entries |-> Absent]
OldFile == FileEntry(1, 1)
NewFile == FileEntry(2, 2)

InitHist(l, r, quota) ==
  [env |-> 0, quota |-> quota, faults |-> 0, connect_failed |-> FALSE, escaped |-> FALSE,
   ev_age |-> [f \in Files |-> -1],
   burst |-> [f \in Files |-> 0],
   early |-> [f \in Files |-> FALSE],
   del_age |-> [e \in Entries |-> -1],
   handled |-> {},
   scanned |-> FALSE, ext |-> FALSE, first_ok |-> FALSE, second |-> FALSE,
   want |-> {}, got |-> {}, checked |-> {}, acted |-> <<>>,
   init_local |-> {f \in Files : IsFile(l, f)},
   init_remote |-> {f \in Files : IsFile(r, f)}]

\* A run starts in main, before protocol.connect(), with the configuration
\* read and the two trees as they are found.
InitWith(directions, deletes, trees, quota) ==
  /\ sync_direction \in directions
  /\ sync_deletes \in deletes
  /\ phase = "connect"
  /\ exit_status = -1
  /\ connected = FALSE
  /\ walk = <<>>
  /\ \E t \in trees :
       /\ local = t[1]
       /\ remote = t[2]
       /\ hist = InitHist(t[1], t[2], quota)
  /\ events = <<>>
  /\ timers = [t \in TimerIds |-> FreeTimer]
  /\ pending_timers = [f \in Files |-> 0]
  /\ syncing_from_remote = FALSE
  /\ recently_deleted = {}
  /\ since_check = 0
  /\ scan = <<>>
  /\ dl = NoDl
  /\ calls = [op \in CallOps |-> [e \in Entries |-> 0]]

\* a.txt absent, on one side, or on both with the local copy older, as old
\* (a synced copy) or newer; the directory d absent or empty on the local side
ATrees ==
  LET none == Absent
      sides == {<<none, none>>, <<OldFile, none>>, <<none, NewFile>>, <<OldFile, NewFile>>,
                <<OldFile, OldFile>>, <<NewFile, OldFile>>}
  IN {<<[NoTree EXCEPT !["a.txt"] = x[1], !["d"] = dir], [NoTree EXCEPT !["a.txt"] = x[2]]>> :
        x \in sides, dir \in {Absent, DirEntry}}

Init == InitWith({"two-way", "local-to-nas", "nas-to-local"}, BOOLEAN, ATrees, MaxEnv)

\* ------------------------------------------------------------ environment
Watching == phase = "watch"
Event(type, src, dest, isdir, echo) ==
  [type |-> type, src |-> src, dest |-> dest, is_directory |-> isdir, echo |-> echo]
\* the observer delivers events only once it has been started
Emit(evs) == IF Watching THEN events \o evs ELSE events

EnvBudget == hist.env < hist.quota /\ phase \in {"connect", "initial", "watch"}
FreshContent == 3 + hist.env
EnvHist == [hist EXCEPT !.env = @ + 1, !.ext = TRUE]

WriteTrees(l, r) == LET M == Mtimes(l, r) IN <<Rerank(l, M), Rerank(r, M)>>

UserWrite(f) ==
  /\ EnvBudget
  /\ ParentOk(local, f)
  /\ LET l == PutFile(local, f, FileEntry(NewMtime(local, remote), FreshContent))
         t == WriteTrees(l, remote)
     IN /\ local' = t[1]
        /\ remote' = t[2]
  /\ events' = Emit(<<Event(IF Exists(local, f) THEN "modified" ELSE "created",
                            f, "", FALSE, FALSE)>>)
  /\ hist' = EnvHist
  /\ UNCHANGED <<config, proc, phase, walk, timers, pending_timers, syncing_from_remote,
                 recently_deleted, since_check, scan, dl, calls>>

DeleteEvents(tree, e, echo) ==
  LET kids == {x \in Children(e) : Exists(tree, x)}
      kid == CHOOSE x \in kids : TRUE
  IN (IF kids = {} THEN <<>> ELSE <<Event("deleted", kid, "", FALSE, echo)>>)
       \o <<Event("deleted", e, "", IsDir(tree, e), echo)>>

UserDelete(e) ==
  /\ EnvBudget
  /\ Exists(local, e)
  /\ LET t == WriteTrees(RemoveEntry(local, e), remote)
     IN /\ local' = t[1]
        /\ remote' = t[2]
  /\ events' = Emit(DeleteEvents(local, e, FALSE))
  /\ hist' = EnvHist
  /\ UNCHANGED <<config, proc, phase, walk, timers, pending_timers, syncing_from_remote,
                 recently_deleted, since_check, scan, dl, calls>>

UserMkdir(d) ==
  /\ EnvBudget
  /\ ~Exists(local, d)
  /\ local' = [local EXCEPT ![d] = DirEntry]
  /\ events' = Emit(<<Event("created", d, "", TRUE, FALSE)>>)
  /\ hist' = EnvHist
  /\ UNCHANGED <<config, proc, phase, walk, remote, timers, pending_timers,
                 syncing_from_remote, recently_deleted, since_check, scan, dl, calls>>

\* a rename keeps the file's modification time
UserMove(src, dst) ==
  /\ EnvBudget
  /\ src # dst
  /\ IsFile(local, src) /\ ~Exists(local, dst) /\ ParentOk(local, dst)
  /\ local' = [local EXCEPT ![dst] = local[src], ![src] = Absent]
  /\ events' = Emit(<<Event("moved", src, dst, FALSE, FALSE)>>)
  /\ hist' = EnvHist
  /\ UNCHANGED <<config, proc, phase, walk, remote, timers, pending_timers,
                 syncing_from_remote, recently_deleted, since_check, scan, dl, calls>>

RemoteWrite(f) ==
  /\ EnvBudget
  /\ LET r == PutFile(remote, f, FileEntry(NewMtime(local, remote), FreshContent))
         t == WriteTrees(local, r)
     IN /\ local' = t[1]
        /\ remote' = t[2]
  /\ hist' = EnvHist
  /\ UNCHANGED <<config, proc, phase, walk, events, timers, pending_timers,
                 syncing_from_remote, recently_deleted, since_check, scan, dl, calls>>

RemoteDelete(e) ==
  /\ EnvBudget
  /\ Exists(remote, e)
  /\ LET t == WriteTrees(local, RemoveEntry(remote, e))
     IN /\ local' = t[1]
        /\ remote' = t[2]
  /\ hist' = EnvHist
  /\ UNCHANGED <<config, proc, phase, walk, events, timers, pending_timers,
                 syncing_from_remote, recently_deleted, since_check, scan, dl, calls>>

EnvNext ==
  \/ \E f \in Files : UserWrite(f)
  \/ \E e \in Entries : UserDelete(e)
  \/ \E d \in Dirs : UserMkdir(d)
  \/ \E s \in Files, t \in Files : UserMove(s, t)
  \/ \E f \in Files : RemoteWrite(f)
  \/ \E e \in Entries : RemoteDelete(e)

\* ---------------------------------------------------------- SMB adapter
\* ensure_directory takes the path of a file: it creates the directories
\* above the last component.
EnsureDirectory(tree, p) ==
  [x \in Entries |-> IF x = Parent(p) /\ ~Exists(tree, x) THEN DirEntry ELSE tree[x]]
FileExists(tree, p) == Exists(tree, p)
GetFileStat(tree, p) == tree[p]
HasStat(st) == st.kind # "absent"

FaultBudget == hist.faults < MaxFaults
Outcomes == IF FaultBudget THEN BOOLEAN ELSE {TRUE}
Faulted(h, ok) == IF ok THEN h ELSE [h EXCEPT !.faults = @ + 1]
Called(c, op, p) == [c EXCEPT ![op][p] = Sat(@, MaxCalls)]

\* the places where SyncHandler calls the adapter, and those that lie inside
\* a try statement whose except clause takes every Exception
Guarded == {"sync_file_upload", "sync_file_download", "sync_file_stat",
              "sync_directory", "on_deleted", "on_moved", "scan_stat", "scan_list"}
\* an adapter call made at the site returns (ok) or raises
Raised(h, ok, site) ==
  IF ok \/ site \in Guarded THEN Faulted(h, ok)
  ELSE [Faulted(h, ok) EXCEPT !.escaped = TRUE]

\* --------------------------------------------------------- _recently_deleted
\* relative_to() yields a path object, the scan builds a str: the two are
\* different dictionary keys even when they spell the same path.
PathKey(p) == [type |-> "Path", path |-> p]
StrKey(p) == [type |-> "str", path |-> p]
HasKey(rd, k) == \E x \in rd : x.key = k
AgeOf(rd, k) == (CHOOSE x \in rd : x.key = k).age
DelKey(rd, k) == {x \in rd : x.key # k}
SetKey(rd, k) == DelKey(rd, k) \cup {[key |-> k, age |-> 0]}

\* ----------------------------------------------------------- debounce timers
FreeIds == {t \in TimerIds : timers[t].st = "free"}
NewId == CHOOSE t \in FreeIds : \A u \in FreeIds : t <= u

\* Timer.cancel(): a timer still waiting never runs its function; one whose
\* function is already running is not affected.
Cancel(tm, t) ==
  IF t # 0 /\ tm[t].st = "waiting" THEN [tm EXCEPT ![t] = FreeTimer] ELSE tm

\* history: an event on p that comes debounce_time or more after the previous
\* one starts a new burst; the timers of earlier events are no longer of the
\* current burst (cur)
NewBurst(h, p) == h.ev_age[p] \notin 0..(debounce_time - 1)
Outdated(tm, p) ==
  [t \in TimerIds |-> IF tm[t].st # "free" /\ tm[t].path = p /\ NewBurst(hist, p)
                        THEN [tm[t] EXCEPT !.cur = FALSE] ELSE tm[t]]

\* _schedule_sync(file_path, is_directory=False)
ScheduleTimers(tm, pt, p) ==
  [Outdated(Cancel(tm, pt[p]), p) EXCEPT ![NewId] =
      [st |-> "waiting", path |-> p, remaining |-> debounce_time, data |-> 0,
       cur |-> TRUE]]
SchedulePending(pt, p) == [pt EXCEPT ![p] = NewId]
ScheduleHist(h, p) ==
  [h EXCEPT !.burst[p] = IF NewBurst(h, p) THEN 0 ELSE @,
            !.early[p] = IF NewBurst(h, p) THEN FALSE ELSE @,
            !.ev_age[p] = 0]

\* _sync_directory(src_path)
SyncDirectory(tree, p) ==
  IF IsDir(local, p) THEN EnsureDirectory(tree, p) ELSE tree

KeepPending(pt, p) == pt
\* the entry removed from pending_timers by the callback's finally clause
PopPending(pt, p) == [pt EXCEPT ![p] = 0]

TimerUploadsAlways(p) == TRUE
\* Timer callback sync_file(): the checks before the upload_file call
TimerUploads(p) == Exists(local, p) /\ IsFile(local, p)
\* what open(local_path, 'rb') reads
Content(tree, p) == IF IsFile(tree, p) THEN tree[p].content ELSE 0

\* Timer callback sync_file(), up to the upload_file call
TimerFire(t) ==
  /\ timers[t].st = "waiting" /\ timers[t].remaining = 0
  /\ LET p == timers[t].path IN
       IF TimerUploads(p)
         THEN /\ timers' = [timers EXCEPT ![t].st = "running",
                                          ![t].remaining = MaxTransfer,
                                          ![t].data = Content(local, p)]
              /\ calls' = Called(calls, "upload_file", p)
              /\ hist' = IF timers[t].cur
                            THEN [hist EXCEPT
                                    !.burst[p] = Sat(@, MaxCalls),
                                    !.early[p] = @ \/ hist.ev_age[p] < debounce_time]
                            ELSE hist
              /\ UNCHANGED pending_timers
         ELSE /\ timers' = [timers EXCEPT ![t] = FreeTimer]
              /\ pending_timers' = PopPending(pending_timers, p)
              /\ UNCHANGED <<calls, hist>>
  /\ UNCHANGED <<config, proc, phase, walk, local, remote, events, syncing_from_remote,
                 recently_deleted, since_check, scan, dl>>

PendingKeptOnFailure(pt, p, ok) == IF ok THEN PopPending(pt, p) ELSE pt
\* pending_timers after upload_file has returned or raised
PendingAfterUpload(pt, p, ok) == PopPending(pt, p)

\* upload_file returns or raises; then the finally clause
UploadEnd(t) ==
  /\ timers[t].st = "running"
  /\ \E ok \in Outcomes :
       LET p == timers[t].path
           r == PutFile(remote, p, FileEntry(NewMtime(local, remote), timers[t].data))
           tr == WriteTrees(local, IF ok THEN r ELSE remote)
       IN /\ local' = tr[1]
          /\ remote' = tr[2]
          /\ hist' = Raised(hist, ok, "sync_file_upload")
          /\ pending_timers' = PendingAfterUpload(pending_timers, p, ok)
  /\ timers' = [timers EXCEPT ![t] = FreeTimer]
  /\ UNCHANGED <<config, proc, phase, walk, events, syncing_from_remote,
                 recently_deleted, since_check, scan, dl, calls>>

TimerNext == \E t \in TimerIds : TimerFire(t) \/ UploadEnd(t)

\* ------------------------------------------------------------ event handlers
Handled(h, ev) == [h EXCEPT !.handled = @ \cup {<<ev.type, ev.echo>>}]
Dispatch(type) == Watching /\ events # <<>> /\ Head(events).type = type

\* on_created / on_modified: which events reach _schedule_sync
CreatedSchedules(ev) == LocalToRemote /\ ~ev.is_directory
ModifiedSchedules(ev) == LocalToRemote /\ ~ev.is_directory

OnCreated ==
  /\ Dispatch("created")
  /\ LET ev == Head(events) IN
       /\ CreatedSchedules(ev) => FreeIds # {}
       /\ timers' = IF CreatedSchedules(ev)
                      THEN ScheduleTimers(timers, pending_timers, ev.src) ELSE timers
       /\ pending_timers' = IF CreatedSchedules(ev)
                              THEN SchedulePending(pending_timers, ev.src)
                              ELSE pending_timers
       /\ \E ok \in (IF LocalToRemote /\ ev.is_directory THEN Outcomes ELSE {TRUE}) :
            /\ remote' = IF LocalToRemote /\ ev.is_directory /\ ok
                           THEN SyncDirectory(remote, ev.src) ELSE remote
            /\ hist' = Handled(IF CreatedSchedules(ev)
                                 THEN ScheduleHist(hist, ev.src)
                                 ELSE Raised(hist, ok, "sync_directory"), ev)
  /\ events' = Tail(events)
  /\ UNCHANGED <<config, proc, phase, walk, local, syncing_from_remote, recently_deleted,
                 since_check, scan, dl, calls>>

OnModified ==
  /\ Dispatch("modified")
  /\ LET ev == Head(events) IN
       /\ ModifiedSchedules(ev) => FreeIds # {}
       /\ timers' = IF ModifiedSchedules(ev)
                      THEN ScheduleTimers(timers, pending_timers, ev.src) ELSE timers
       /\ pending_timers' = IF ModifiedSchedules(ev)
                              THEN SchedulePending(pending_timers, ev.src)
                              ELSE pending_timers
       /\ hist' = Handled(IF ModifiedSchedules(ev) THEN ScheduleHist(hist, ev.src)
                                                   ELSE hist, ev)
  /\ events' = Tail(events)
  /\ UNCHANGED <<config, proc, phase, walk, local, remote, syncing_from_remote,
                 recently_deleted, since_check, scan, dl, calls>>

DeletedReachesAdapterUnchecked(ev) ==
  ~syncing_from_remote /\ LocalToRemote /\ sync_deletes
\* on_deleted reaches the adapter when none of its early returns is taken
DeletedReachesAdapter(ev) ==
  /\ ~syncing_from_remote
  /\ LocalToRemote
  /\ sync_deletes
  /\ ~Exists(local, ev.src)
\* the key under which on_deleted records the deletion
TombstoneKey(p) == PathKey(p)
TombstoneAlways(rd, p, result) == SetKey(rd, TombstoneKey(p))
\* _recently_deleted after delete_file has returned result
TombstoneAfterDelete(rd, p, result) ==
  IF result THEN SetKey(rd, TombstoneKey(p)) ELSE rd

OnDeleted ==
  /\ Dispatch("deleted")
  /\ LET ev == Head(events)
         p == ev.src
     IN IF DeletedReachesAdapter(ev) /\ FileExists(remote, p)
          THEN \/ \E result \in Outcomes :
                    /\ calls' = Called(calls, "delete_file", p)
                    /\ remote' = IF result THEN RemoveEntry(remote, p) ELSE remote
                    /\ recently_deleted' =
                         TombstoneAfterDelete(recently_deleted, p, result)
                    /\ hist' = Handled(Raised(IF result
                                                THEN [hist EXCEPT !.del_age[p] = 0]
                                                ELSE hist, result, "on_deleted"), ev)
               \/ \* file_exists raises
                  /\ FaultBudget
                  /\ hist' = Handled(Raised(hist, FALSE, "on_deleted"), ev)
                  /\ UNCHANGED <<calls, remote, recently_deleted>>
          ELSE /\ hist' = Handled(hist, ev)
               /\ UNCHANGED <<calls, remote, recently_deleted>>
  /\ events' = Tail(events)
  /\ UNCHANGED <<config, proc, phase, walk, local, timers, pending_timers,
                 syncing_from_remote, since_check, scan, dl>>

MovedDeletesOldAlways(ev) == ~Exists(local, ev.src) /\ FileExists(remote, ev.src)
\* on_moved: the second half, for the old location
MovedDeletesOld(ev) ==
  /\ sync_deletes
  /\ ~Exists(local, ev.src)
  /\ FileExists(remote, ev.src)

OnMoved ==
  /\ Dispatch("moved")
  /\ LET ev == Head(events)
         sched == LocalToRemote /\ IsFile(local, ev.dest)
         r1 == IF LocalToRemote /\ IsDir(local, ev.dest)
                 THEN SyncDirectory(remote, ev.dest) ELSE remote
     IN /\ sched => FreeIds # {}
        /\ timers' = IF sched THEN ScheduleTimers(timers, pending_timers, ev.dest)
                              ELSE timers
        /\ pending_timers' = IF sched THEN SchedulePending(pending_timers, ev.dest)
                                      ELSE pending_timers
        /\ IF LocalToRemote /\ MovedDeletesOld(ev)
             THEN \E result \in Outcomes :
                    /\ calls' = Called(calls, "delete_file", ev.src)
                    /\ remote' = IF result THEN RemoveEntry(r1, ev.src) ELSE r1
                    /\ hist' = Handled(Raised(IF sched THEN ScheduleHist(hist, ev.dest)
                                                       ELSE hist, result, "on_moved"), ev)
             ELSE /\ remote' = r1
                  /\ hist' = Handled(IF sched THEN ScheduleHist(hist, ev.dest)
                                              ELSE hist, ev)
                  /\ UNCHANGED calls
  /\ events' = Tail(events)
  /\ UNCHANGED <<config, proc, phase, walk, local, syncing_from_remote, recently_deleted,
                 since_check, scan, dl>>


\* ------------------------------------------------------------------- main

\* the status of a process whose main() has returned
ReturnStatus == 0
\* the status of a process ended by an exception that nothing catches
UncaughtStatus == 1

\* main: protocol.connect(); on failure main logs and returns; otherwise
\* sync_existing_files starts its walk
Connect ==
  /\ phase = "connect"
  /\ \E ok \in BOOLEAN :
       /\ phase' = IF ok THEN "initial" ELSE "exited"
       /\ exit_status' = IF ok THEN exit_status ELSE ReturnStatus
       /\ connected' = ok
       /\ walk' = IF ok THEN SelectSeq(<<"a.txt", "d/b.txt">>, LAMBDA f : IsFile(local, f)) ELSE <<>>
       /\ hist' = IF ok THEN hist ELSE [hist EXCEPT !.connect_failed = TRUE]
  /\ UNCHANGED <<config, local, remote, events, timers, pending_timers,
                 syncing_from_remote, recently_deleted, since_check, scan, dl,
                 calls>>

InitialSkipsNoStat(rstat, lstat) == ~HasStat(rstat) \/ rstat.mtime >= lstat.mtime
\* sync_existing_files: the file is skipped when the remote copy is not older
InitialSkips(rstat, lstat) == HasStat(rstat) /\ rstat.mtime >= lstat.mtime

\* sync_existing_files: one iteration of the loop over the files
InitialStep ==
  /\ phase = "initial" /\ walk # <<>>
  /\ LET f == Head(walk)
         r0 == EnsureDirectory(remote, f)
         rstat == GetFileStat(r0, f)
     IN IF ~IsFile(local, f)
          THEN \* the file went away: stat() or open() raises, the loop goes on
               /\ remote' = r0
               /\ calls' = IF HasStat(rstat) THEN calls
                                             ELSE Called(calls, "upload_file", f)
               /\ UNCHANGED <<local, hist>>
          ELSE IF InitialSkips(rstat, local[f])
          THEN /\ remote' = r0
               /\ UNCHANGED <<local, calls, hist>>
          ELSE \E ok \in Outcomes :
                 LET r == PutFile(r0, f, FileEntry(NewMtime(local, r0), local[f].content))
                     tr == WriteTrees(local, IF ok THEN r ELSE r0)
                 IN /\ local' = tr[1]
                    /\ remote' = tr[2]
                    /\ calls' = Called(calls, "upload_file", f)
                    /\ hist' = Faulted(hist, ok)
  /\ walk' = Tail(walk)
  /\ UNCHANGED <<config, proc, phase, events, timers, pending_timers, syncing_from_remote,
                 recently_deleted, since_check, scan, dl>>

InitialDoneAlways == TRUE
\* main: sync_existing_files has returned
InitialDone == walk = <<>>

\* main: SyncHandler(...) (which connects again), observer.start(), last_check;
\* when the constructor raises, main logs, disconnects and returns
StartWatching ==
  /\ phase = "initial" /\ InitialDone
  /\ \E ok \in BOOLEAN :
       /\ phase' = IF ok THEN "watch" ELSE "exited"
       /\ exit_status' = IF ok THEN exit_status ELSE ReturnStatus
       /\ connected' = ok
  /\ since_check' = 0
  /\ UNCHANGED <<config, walk, local, remote, events, timers, pending_timers,
                 syncing_from_remote, recently_deleted, scan, dl, calls, hist>>

\* history: what was recorded about the main loop's scans
LoopForgotten(h) ==
  [h EXCEPT !.del_age = [e \in Entries |-> -1], !.want = {}, !.got = {},
            !.checked = {},
            !.second = FALSE, !.first_ok = FALSE, !.ext = FALSE, !.scanned = FALSE]

\* the interrupt signal: KeyboardInterrupt is raised in the main thread.
\* During the initial pass nothing catches it.  In the main loop it ends a
\* running scan (the finally clause of _sync_file clears the flag) and main
\* calls observer.stop(): no further event is dispatched.  What only the main
\* loop and the event thread read (last_check, _recently_deleted) is of no
\* use from here on and is dropped.
Interrupt ==
  /\ phase \in {"initial", "watch"}
  /\ phase' = IF phase = "initial" THEN "exited" ELSE "stopped"
  /\ exit_status' = IF phase = "initial" THEN UncaughtStatus ELSE exit_status
  /\ walk' = <<>>
  /\ events' = <<>>
  /\ scan' = <<>>
  /\ dl' = NoDl
  /\ syncing_from_remote' = FALSE
  /\ recently_deleted' = {}
  /\ since_check' = 0
  /\ hist' = LoopForgotten(hist)
  /\ UNCHANGED <<config, connected, local, remote, timers, pending_timers, calls>>

\* main: observer.join(), protocol.disconnect(), and main returns.  Nothing
\* cancels or joins the Timer threads.  A Timer inherits its daemon flag from
\* the watcher thread that created it: daemon threads end with the process,
\* other threads keep it alive until they have run.
Disconnect ==
  /\ phase = "stopped"
  /\ phase' = "exited"
  /\ connected' = FALSE
  /\ exit_status' = ReturnStatus
  /\ \E daemon \in BOOLEAN :
       timers' = IF daemon THEN [t \in TimerIds |-> FreeTimer] ELSE timers
  /\ UNCHANGED <<config, walk, local, remote, events, pending_timers,
                 syncing_from_remote, recently_deleted, since_check, scan, dl,
                 calls, hist>>

\* ------------------------------------------------------------------- scan
Frame(dir) == [dir |-> dir, listed |-> FALSE, ok |-> TRUE, items |-> <<>>, map |-> {}]
ListOrder(dir) == IF dir = Root THEN <<"a.txt", "d">> ELSE <<"b.txt">>

\* list_files: one level; a failure is swallowed and yields the empty list
ListFiles(dir, ok) ==
  LET there(n) == Exists(remote, Join(dir, n))
      isdir == IF dir = Root THEN TRUE ELSE IsDir(remote, dir)
      names == IF ok /\ isdir
                 THEN SelectSeq(ListOrder(dir), there) ELSE <<>>
  IN [i \in 1..Len(names) |->
        [name |-> names[i], is_dir |-> IsDir(remote, Join(dir, names[i]))]]

\* nothing queued, no timer alive, no transfer in progress
Idle == events = <<>> /\ dl = NoDl /\ \A t \in TimerIds : timers[t].st = "free"

\* history: the files deleted through on_deleted at least _delete_cooldown
\* ago that are absent locally and present on the remote
Expired == {p \in Files : /\ hist.del_age[p] >= delete_cooldown
                          /\ ~Exists(local, p)
                          /\ IsFile(remote, p)}

\* main loop: the periodic call of _check_remote_changes
\* _check_remote_changes: its own guard
CheckRuns == RemoteToLocal /\ ~syncing_from_remote

CheckRemoteChanges ==
  /\ Watching /\ scan = <<>>
  /\ RemoteToLocal /\ since_check >= check_interval
  /\ scan' = IF CheckRuns THEN <<Frame(Root)>> ELSE <<>>
  /\ since_check' = 0
  /\ hist' = [hist EXCEPT !.second = hist.first_ok /\ ~hist.ext,
                          !.first_ok = Idle,
                          !.ext = FALSE,
                          !.want = IF CheckRuns THEN Expired ELSE {},
                          !.got = {}]
  /\ UNCHANGED <<config, proc, phase, walk, local, remote, events, timers, pending_timers,
                 syncing_from_remote, recently_deleted, dl, calls>>

ScanList ==
  /\ scan # <<>> /\ ~Head(scan).listed
  /\ \E ok \in Outcomes :
       LET items == ListFiles(Head(scan).dir, ok) IN
         /\ scan' = <<[Head(scan) EXCEPT
                         !.listed = TRUE,
                         !.ok = ok,
                         !.items = items,
                         !.map = {items[i].name : i \in 1..Len(items)}]>>
                      \o Tail(scan)
         /\ hist' = Raised(hist, ok, "scan_list")
  /\ UNCHANGED <<config, proc, phase, walk, local, remote, events, timers, pending_timers,
                 syncing_from_remote, recently_deleted, since_check, dl, calls>>

RemoteOlder(rstat, lstat) == rstat.mtime < lstat.mtime
\* _scan_remote_directory: does the listed file go to _sync_file?
RemoteNewer(rstat, lstat) == rstat.mtime > lstat.mtime
ScanWantsNewerOnly(p) ==
  /\ HasStat(GetFileStat(remote, p))
  /\ IsFile(local, p)
  /\ RemoteNewer(GetFileStat(remote, p), local[p])
ScanWantsFile(p) ==
  \/ ~Exists(local, p)
  \/ /\ HasStat(GetFileStat(remote, p))
     /\ IsFile(local, p)
     /\ RemoteNewer(GetFileStat(remote, p), local[p])

\* _sync_file(from_remote=True): the cooldown check
LookupKey(p) == StrKey(p)
InCooldown(rd, p) ==
  HasKey(rd, LookupKey(p)) /\ AgeOf(rd, LookupKey(p)) < delete_cooldown
\* _sync_file(from_remote=True): the checks between the cooldown and the download
NotNewer(rstat, lstat) == rstat.mtime <= lstat.mtime
DownloadOnlyUpdates(p) ==
  /\ HasStat(GetFileStat(remote, p))
  /\ IsFile(local, p)
  /\ ~NotNewer(GetFileStat(remote, p), local[p])
DownloadWanted(p) ==
  /\ HasStat(GetFileStat(remote, p))
  /\ ~(IsFile(local, p) /\ NotNewer(GetFileStat(remote, p), local[p]))

ScanItem ==
  /\ scan # <<>> /\ Head(scan).listed /\ Head(scan).items # <<>>
  /\ dl = NoDl
  /\ LET fr == Head(scan)
         item == Head(fr.items)
         p == Join(fr.dir, item.name)
         rest == <<[fr EXCEPT !.items = Tail(@)]>> \o Tail(scan)
     IN IF item.is_dir
          THEN /\ scan' = <<Frame(p)>> \o rest
               /\ UNCHANGED <<recently_deleted, syncing_from_remote, dl, calls, hist>>
          ELSE /\ scan' = rest
               /\ \/ IF ScanWantsFile(p) /\ ~InCooldown(recently_deleted, p)
                       THEN /\ recently_deleted' = DelKey(recently_deleted, LookupKey(p))
                            /\ IF DownloadWanted(p)
                                 THEN /\ syncing_from_remote' = TRUE
                                      /\ dl' = [path |-> p, data |-> remote[p].content,
                                                   remaining |-> MaxTransfer]
                                      /\ calls' = Called(calls, "download_file", p)
                                      /\ hist' = [hist EXCEPT !.got = @ \cup {p}]
                                 ELSE UNCHANGED <<syncing_from_remote, dl, calls, hist>>
                       ELSE UNCHANGED <<recently_deleted, syncing_from_remote, dl, calls, hist>>
                  \/ \* get_file_stat raises, in the scan or in _sync_file
                     /\ FaultBudget
                     /\ Exists(local, p) \/ ~InCooldown(recently_deleted, p)
                     /\ recently_deleted' =
                          IF Exists(local, p) THEN recently_deleted
                          ELSE DelKey(recently_deleted, LookupKey(p))
                     /\ hist' = Raised(hist, FALSE,
                                       IF Exists(local, p) THEN "scan_stat"
                                                           ELSE "sync_file_stat")
                     /\ UNCHANGED <<syncing_from_remote, dl, calls>>
  /\ UNCHANGED <<config, proc, phase, walk, local, remote, events, timers, pending_timers,
                 since_check>>

AbortScanOnFailure(sc, ok) == IF ok THEN sc ELSE <<>>
\* the scan after download_file has returned or raised: the exception is
\* caught inside _sync_file, the loop over the listing goes on
AfterDownload(sc, ok) == sc

FlagClearedOnSuccess(ok) == ~ok
\* the flag after download_file has returned or raised
FlagAfterDownload(ok) == FALSE

\* download_file returns or raises; then the finally clause of _sync_file
DownloadEnd ==
  /\ dl # NoDl
  /\ \E ok \in Outcomes :
       LET p == dl.path
           l == PutFile(local, p, FileEntry(NewMtime(local, remote), dl.data))
           tr == WriteTrees(IF ok THEN l ELSE local, remote)
       IN /\ local' = tr[1]
          /\ remote' = tr[2]
          /\ events' = IF ok
                         THEN Emit(<<Event(IF Exists(local, p) THEN "modified"
                                                               ELSE "created",
                                           p, "", FALSE, TRUE)>>)
                         ELSE events
          /\ hist' = Raised(hist, ok, "sync_file_download")
          /\ syncing_from_remote' = FlagAfterDownload(ok)
          /\ scan' = AfterDownload(scan, ok)
  /\ dl' = NoDl
  /\ UNCHANGED <<config, proc, phase, walk, timers, pending_timers, recently_deleted,
                 since_check, calls>>

\* _check_local_files_to_delete: local names the remote listing does not have
ItemsToDelete(dir, map) ==
  LET gone(n) == Exists(local, Join(dir, n)) /\ n \notin map
      isdir == IF dir = Root THEN TRUE ELSE IsDir(local, dir)
  IN IF isdir THEN SelectSeq(ListOrder(dir), gone) ELSE <<>>

RECURSIVE UnlinkAll(_, _, _)
UnlinkAll(tree, dir, names) ==
  IF names = <<>> THEN tree
  ELSE UnlinkAll(RemoveEntry(tree, Join(dir, Head(names))), dir, Tail(names))

RECURSIVE UnlinkEvents(_, _, _)
UnlinkEvents(tree, dir, names) ==
  IF names = <<>> THEN <<>>
  ELSE DeleteEvents(tree, Join(dir, Head(names)), TRUE)
         \o UnlinkEvents(tree, dir, Tail(names))

DeleteCheckEarly(fr) == fr.listed
\* _scan_remote_directory: the loop over the listing is over
DeleteCheckDue(fr) == fr.listed /\ fr.items = <<>>

\* _scan_remote_directory: the end of one directory
ScanDeleteCheck ==
  /\ scan # <<>> /\ DeleteCheckDue(Head(scan))
  /\ dl = NoDl
  /\ LET fr == Head(scan)
         victims == IF sync_deletes THEN ItemsToDelete(fr.dir, fr.map) ELSE <<>>
         tr == WriteTrees(UnlinkAll(local, fr.dir, victims), remote)
     IN /\ local' = tr[1]
        /\ remote' = tr[2]
        /\ events' = Emit(UnlinkEvents(local, fr.dir, victims))
        /\ hist' = IF Tail(scan) = <<>>
                     THEN [hist EXCEPT !.scanned = TRUE, !.want = {}, !.got = {},
                                       !.checked = {}]
                     ELSE [hist EXCEPT !.checked = @ \cup {fr.dir}]
  /\ scan' = Tail(scan)
  /\ UNCHANGED <<config, proc, phase, walk, timers, pending_timers, syncing_from_remote,
                 recently_deleted, since_check, dl, calls>>

ScanNext == CheckRemoteChanges \/ ScanList \/ ScanItem \/ DownloadEnd \/ ScanDeleteCheck
MainNext == Connect \/ InitialStep \/ StartWatching \/ Interrupt \/ Disconnect

\* ------------------------------------------------------------------- time
\* d seconds pass
Older(a, cap, d) == IF a < 0 THEN a ELSE IF a + d >= cap THEN cap ELSE a + d
Ageing ==
  \/ \E t \in TimerIds : timers[t].st # "free"
  \/ dl # NoDl
  \/ \E x \in recently_deleted : x.age < delete_cooldown
  \/ \E f \in Files : hist.ev_age[f] \in 0..(debounce_time - 1)
  \/ \E e \in Entries : hist.del_age[e] \in 0..(delete_cooldown - 1)
\* One second passes while something is counting down; otherwise the model
\* goes straight to the instant at which the next remote check is due.
Step == IF Ageing \/ since_check >= check_interval THEN 1 ELSE check_interval - since_check

\* after the main loop has ended only the Timer threads are left
Stopped == phase \in {"stopped", "exited"}
TimersAlive == \E t \in TimerIds : timers[t].st # "free"

Tick ==
  /\ Watching \/ (Stopped /\ TimersAlive)
  /\ events = <<>>
  /\ \A t \in TimerIds : ~(timers[t].st # "free" /\ timers[t].remaining = 0)
  /\ IF scan = <<>> THEN TRUE ELSE dl # NoDl /\ dl.remaining > 0
  /\ timers' = [t \in TimerIds |->
                  IF timers[t].st # "free"
                    THEN [timers[t] EXCEPT !.remaining = @ - 1] ELSE timers[t]]
  /\ dl' = IF dl = NoDl THEN dl ELSE [dl EXCEPT !.remaining = @ - 1]
  /\ recently_deleted' =
       IF Stopped THEN recently_deleted
       ELSE {[x EXCEPT !.age = Older(@, delete_cooldown, Step)] : x \in recently_deleted}
  /\ since_check' = IF Stopped THEN since_check
                     ELSE Older(since_check, check_interval, Step)
  /\ hist' = [hist EXCEPT
                !.ev_age = [f \in Files |-> Older(hist.ev_age[f], debounce_time, Step)],
                !.del_age = [e \in Entries |->
                               Older(hist.del_age[e], delete_cooldown, Step)]]
  /\ UNCHANGED <<config, proc, phase, walk, local, remote, events, pending_timers,
                 syncing_from_remote, scan, calls>>

Next ==
  \/ EnvNext \/ MainNext
  \/ OnCreated \/ OnModified \/ OnDeleted \/ OnMoved
  \/ TimerNext \/ ScanNext \/ Tick
Spec == Init /\ [][Next]_vars

\* ------------------------------------------------- the debounce scenario
\* local-to-nas, a.txt on the local side only, and a user who writes and
\* deletes a.txt: the remote scanner never runs in this direction.
LocalOnly == {<<[NoTree EXCEPT !["a.txt"] = OldFile], NoTree>>}
InitDebounce == InitWith({"local-to-nas"}, BOOLEAN, LocalOnly, MaxBurst)
NextDebounce ==
  \/ UserWrite("a.txt")
  \/ UserDelete("a.txt")
  \/ MainNext
  \/ OnCreated \/ OnModified \/ OnDeleted
  \/ TimerNext
  \/ Tick
SpecDebounce == InitDebounce /\ [][NextDebounce]_vars

\* C1: a burst of Created/Modified events on one path (consecutive events
\* less than debounce_time apart) leads to one upload_file call, and no
\* upload_file call for the path is made before the deadline of the last
\* event (its time + debounce_time).
C1_OneUploadPerBurst ==
  \A f \in Files : hist.burst[f] <= 1 /\ ~hist.early[f]

Settled == Idle /\ scan = <<>> /\ walk = <<>>
UploadCalls(f) == calls["upload_file"][f]
DownloadCalls(f) == calls["download_file"][f]
DeleteCalls(e) == calls["delete_file"][e]
WasHandled(type) == <<type, FALSE>> \in hist.handled

\* C9: local-to-nas, a.txt on the local side only: the initial pass makes one
\* upload_file call for a.txt; one later modification of a.txt makes one
\* more, not before the debounce window of the Modified event has elapsed
\* (counted once the engine is at rest and the process has not exited).
C9_InitialThenOneUpload ==
  /\ (Watching /\ hist.env = 0) => UploadCalls("a.txt") = 1
  /\ (hist.env = 1 /\ WasHandled("modified")) =>
       /\ hist.burst["a.txt"] <= 1
       /\ ~hist.early["a.txt"]
       /\ (Settled /\ phase # "exited") =>
            hist.burst["a.txt"] = 1 /\ UploadCalls("a.txt") = 2
C9_Witness ==
  /\ hist.env = 1 /\ WasHandled("modified") /\ Settled
  /\ UploadCalls("a.txt") = 2 /\ hist.faults = 0
  /\ remote["a.txt"].content = local["a.txt"].content

\* ------------------------------------------------- the deletion scenario
\* two-way with sync_deletes: a.txt synced on both sides, d/b.txt absent or
\* on the remote side only; the user deletes a.txt, a.txt is written again
\* on the remote side.
SyncedA == [NoTree EXCEPT !["a.txt"] = OldFile]
InitDelete ==
  InitWith({"two-way"}, {TRUE},
           {<<SyncedA, SyncedA>>, <<SyncedA, PutFile(SyncedA, "d/b.txt", NewFile)>>},
           MaxDeleteOps)
NextDelete ==
  \/ UserDelete("a.txt")
  \/ RemoteWrite("a.txt")
  \/ MainNext
  \/ OnCreated \/ OnModified \/ OnDeleted
  \/ TimerNext
  \/ ScanNext
  \/ Tick
SpecDelete == InitDelete /\ [][NextDelete]_vars

DownloadStarts(p) == dl = NoDl /\ dl' # NoDl /\ dl'.path = p
InTtl(p) == hist.del_age[p] \in 0..(delete_cooldown - 1)

\* C2: once on_deleted has deleted p on the remote, no download_file call
\* for p starts less than _delete_cooldown seconds after that deletion.
C2_NoDownloadInCooldown ==
  [][\A p \in Files : DownloadStarts(p) => ~InTtl(p)]_vars

\* the running scan returns to the main loop
ScanCompletes == scan # <<>> /\ scan' = <<>> /\ phase' = "watch"

\* C3: a scan that starts with the engine idle, and meets no external change
\* and no adapter failure, has called download_file for every file that was
\* deleted through on_deleted at least _delete_cooldown before the scan
\* started and was then absent locally and present on the remote.
C3_DownloadAfterTtl ==
  [][(ScanCompletes /\ hist.first_ok /\ ~hist.ext /\ hist.faults = 0)
        => hist.want \subseteq hist.got]_vars
C3_Witness ==
  /\ scan # <<>> /\ dl = NoDl
  /\ hist.first_ok /\ ~hist.ext /\ hist.faults = 0
  /\ "a.txt" \in hist.want /\ "a.txt" \in hist.got
  /\ IsFile(local, "a.txt")
  /\ \E x \in recently_deleted : x.key.path = "a.txt" /\ x.age >= delete_cooldown

\* C8: two-way with sync_deletes: after the Deleted event of a file that is
\* on the remote, one delete_file call has been made for it and a tombstone
\* is recorded for it; the scan that follows does not bring the file back.
C8_DeleteOnceAndStayDeleted ==
  (/\ sync_direction = "two-way" /\ sync_deletes /\ Watching
   /\ hist.env = 1 /\ WasHandled("deleted") /\ hist.faults = 0) =>
     /\ DeleteCalls("a.txt") = 1
     /\ \E x \in recently_deleted : x.key.path = "a.txt"
     /\ ~Exists(local, "a.txt")

\* ---------------------------------------------------------------- general
\* C4: with sync_deletes off no delete_file call is ever made.
C4_NoRemoteDelete ==
  ~sync_deletes => \A e \in Entries : DeleteCalls(e) = 0
C4_Witness ==
  /\ ~sync_deletes /\ LocalToRemote
  /\ WasHandled("moved")
  /\ ~Exists(local, "a.txt") /\ Exists(remote, "a.txt")

\* the event thread takes an event written by the engine's own download
EchoHandled ==
  /\ events # <<>> /\ Head(events).echo
  /\ Head(events).type \in {"created", "modified"}
  /\ events' = Tail(events)

\* C5: a Created/Modified event caused by the engine's own download starts
\* no debounce timer.
C5_EchoIgnored ==
  [][EchoHandled => timers' = timers /\ pending_timers' = pending_timers]_vars

\* C10: whenever no download_file call is executing, _syncing_from_remote
\* is False.
C10_FlagCleared == dl = NoDl => ~syncing_from_remote
C10_Witness ==
  /\ dl = NoDl /\ ~syncing_from_remote
  /\ DownloadCalls("a.txt") >= 1
  /\ hist.faults >= 1 /\ hist.env = 0
  /\ ~Exists(local, "a.txt")

\* the scan starts a download or removes a local entry
ScanActs ==
  \/ dl = NoDl /\ dl' # NoDl
  \/ scan # <<>> /\ scan' = Tail(scan) /\ \E e \in Entries : Exists(local, e) /\ ~Exists(local', e)

\* C6: a run of _check_remote_changes that follows another one, with the
\* engine idle when the first began, no external change since and no failed
\* adapter call, starts no download and removes nothing locally.
C6_SecondScanIdle ==
  [][(scan # <<>> /\ hist.second /\ ~hist.ext /\ hist.faults = 0) => ~ScanActs]_vars

\* ------------------------------------------------- the convergence scenario
\* two-way, the two sides hold disjoint sets of files, nobody touches them
DisjointTrees ==
  {<<PutFile(NoTree, "a.txt", OldFile), NoTree>>,
   <<NoTree, PutFile(NoTree, "a.txt", NewFile)>>,
   <<PutFile(NoTree, "a.txt", OldFile), PutFile(NoTree, "d/b.txt", NewFile)>>,
   <<PutFile(NoTree, "d/b.txt", OldFile), PutFile(NoTree, "a.txt", NewFile)>>}
InitConverge == InitWith({"two-way"}, BOOLEAN, DisjointTrees, 0)
NextConverge ==
  \/ MainNext
  \/ OnCreated \/ OnModified \/ OnDeleted
  \/ TimerNext
  \/ ScanNext
  \/ Tick
SpecConverge == InitConverge /\ [][NextConverge]_vars

Converged ==
  \A f \in hist.init_local \cup hist.init_remote :
     /\ IsFile(local, f) /\ IsFile(remote, f)
     /\ local[f].content = remote[f].content

Running(p) == {t \in TimerIds : timers[t].st = "running" /\ timers[t].path = p}
UploadStarts == \E t \in TimerIds : timers[t].st = "waiting" /\ timers'[t].st = "running"

\* C11: two upload_file executions for the same path never overlap.
C11_OneUploadInFlight == \A p \in Files : Cardinality(Running(p)) <= 1

\* ---------------------------------------------------- startup and shutdown
\* C13: until sync_existing_files has returned no watcher event is queued or
\* handled and no timer exists; the watcher runs only after the walk is over.
C13_InitialPassFirst ==
  /\ phase \in {"connect", "initial"} =>
       events = <<>> /\ hist.handled = {} /\ ~TimersAlive
  /\ Watching => walk = <<>>
C13_Witness ==
  /\ Watching /\ WasHandled("modified")
  /\ UploadCalls("a.txt") = 1 /\ TimersAlive
  /\ hist.env = 1 /\ hist.faults = 0

\* C14: a process whose protocol.connect() failed at startup ends with a
\* non-zero status.
C14_ConnectFailureStatus ==
  (phase = "exited" /\ hist.connect_failed) => exit_status # 0

\* C15: once the shutdown sequence has begun no upload_file call is started.
C15_NoUploadAfterShutdown == [][Stopped => ~UploadStarts]_vars

\* C16: protocol.disconnect() is not called while an upload started by a
\* debounce timer is executing.
C16_DisconnectAfterUploads ==
  [][(connected /\ ~connected') => \A p \in Files : Running(p) = {}]_vars

\* ------------------------------------------------------------- exceptions
\* an adapter call fails while a scan is under way
FailureInScan == scan # <<>> /\ hist'.faults > hist.faults /\ phase' = "watch"
\* the scan still has every directory it was in, and of the current listing
\* at most the item it was at has been consumed
ScanGoesOn ==
  /\ Len(scan') = Len(scan)
  /\ Tail(scan') = Tail(scan)
  /\ Head(scan).listed =>
       \/ Head(scan').items = Head(scan).items
       \/ /\ Head(scan).items # <<>>
          /\ Head(scan').items = Tail(Head(scan).items)

\* C12: no exception of an adapter call leaves an event handler, a timer
\* callback or _check_remote_changes, and a call that fails during a scan
\* leaves the rest of the scan to be processed.
C12_FailuresContained ==
  [][~hist'.escaped /\ (FailureInScan => ScanGoesOn)]_vars
C12_Witness ==
  /\ hist.faults = 1 /\ ~hist.escaped
  /\ "a.txt" \in hist.got /\ ~Exists(local, "a.txt")
  /\ dl.path = "d/b.txt"

\* ---------------------------------------------------------------- directions
\* a step of the scanner that removes the local entry e
ScanRemoves(e) ==
  scan # <<>> /\ scan' = Tail(scan) /\ Exists(local, e) /\ ~Exists(local', e)
\* a step of the engine (not of the user) that removes the local entry e
EngineRemoves(e) ==
  Exists(local, e) /\ ~Exists(local', e) /\ hist'.env = hist.env

\* C17: with local-to-nas no scan is ever under way (so list_files is never
\* called), no download_file call is made and the engine removes no local
\* entry.
C17_LocalToNasNeverScans ==
  [][sync_direction = "local-to-nas" =>
       /\ scan' = <<>> /\ dl' = NoDl
       /\ \A e \in Entries : DownloadCalls(e) = 0 /\ ~EngineRemoves(e)]_vars
C17_Witness ==
  /\ sync_direction = "local-to-nas" /\ Watching
  /\ since_check = check_interval
  /\ IsFile(remote, "a.txt") /\ ~Exists(local, "a.txt")

\* the event thread takes the next event
EventHandled == events # <<>> /\ events' = Tail(events) /\ phase' = "watch"

\* C18: with nas-to-local the handling of a local event makes no adapter
\* call that the model counts, changes nothing on the remote and starts no
\* timer; no timer ever exists.
C18_NasToLocalIgnoresEvents ==
  [][sync_direction = "nas-to-local" =>
       /\ ~TimersAlive'
       /\ EventHandled => /\ calls' = calls /\ remote' = remote
                          /\ timers' = timers /\ pending_timers' = pending_timers]_vars
C18_Witness ==
  /\ sync_direction = "nas-to-local" /\ Watching /\ sync_deletes
  /\ WasHandled("deleted")
  /\ IsFile(remote, "a.txt") /\ ~Exists(local, "a.txt")
  /\ DeleteCalls("a.txt") = 0

\* a debounce timer for f is waiting or its upload is executing
UploadPending(f) == \E t \in TimerIds : timers[t].st # "free" /\ timers[t].path = f

\* C19: the scanner never removes a local file whose debounced upload is
\* still pending or in flight.
C19_NoDeleteBeforeUpload ==
  [][\A f \in Files : (ScanRemoves(f) /\ IsFile(local, f)) => ~UploadPending(f)]_vars

\* C20: the scanner never removes a local directory.
C20_DirectoriesKept ==
  [][\A d \in Dirs : ~(ScanRemoves(d) /\ IsDir(local, d))]_vars

\* ------------------------------------------------------- the mtime rule
\* the scan is at the file p of the current listing
ScanAt(p) ==
  IF scan = <<>> THEN FALSE
  ELSE IF ~Head(scan).listed \/ Head(scan).items = <<>> THEN FALSE
  ELSE /\ ~Head(Head(scan).items).is_dir
       /\ Join(Head(scan).dir, Head(Head(scan).items).name) = p
\* the scan deals with the file p of the current listing and goes on to the
\* next item
ScanVisits(p) ==
  /\ ScanAt(p)
  /\ scan' = <<[Head(scan) EXCEPT !.items = Tail(@)]>> \o Tail(scan)
NoFailureNow == hist'.faults = hist.faults

\* C21: when the scan deals with a file that is on both sides and the stat
\* calls succeed, a download_file call for it starts if and only if the
\* remote modification time is greater than the local one; when it is not
\* greater (equal included) the step changes nothing but the scan position.
C21_DownloadIffRemoteNewer ==
  [][\A p \in Files :
       (ScanVisits(p) /\ IsFile(local, p) /\ IsFile(remote, p) /\ NoFailureNow) =>
          /\ DownloadStarts(p) <=> remote[p].mtime > local[p].mtime
          /\ remote[p].mtime <= local[p].mtime =>
               UNCHANGED <<local, remote, events, timers, pending_timers,
                           syncing_from_remote, recently_deleted, dl, calls>>]_vars
C21_Witness ==
  /\ dl.path = "a.txt" /\ hist.env = 0 /\ hist.faults = 0
  /\ IsFile(local, "a.txt") /\ IsFile(remote, "a.txt")
  /\ remote["a.txt"].mtime > local["a.txt"].mtime

\* ------------------------------------------------- the progress scenario
\* local-to-nas or two-way, a.txt on the local side only or synced on both,
\* and a user who writes and deletes a.txt.  The Timer threads, the event
\* thread and the main loop all get to run, and time passes.
InitLive ==
  InitWith({"local-to-nas", "two-way"}, BOOLEAN, LocalOnly \cup {<<SyncedA, SyncedA>>},
           MaxLiveOps)
NextLive ==
  \/ UserWrite("a.txt")
  \/ UserDelete("a.txt")
  \/ MainNext
  \/ OnCreated \/ OnModified \/ OnDeleted
  \/ TimerNext
  \/ ScanNext
  \/ Tick
Fairness ==
  /\ \A t \in TimerIds : WF_vars(TimerFire(t)) /\ WF_vars(UploadEnd(t))
  /\ WF_vars(OnCreated \/ OnModified \/ OnDeleted)
  /\ WF_vars(ScanNext)
  /\ WF_vars(Tick)
SpecLive == InitLive /\ [][NextLive]_vars /\ Fairness

TimerWaits(p) == \E t \in TimerIds : timers[t].st = "waiting" /\ timers[t].path = p
Uploading(p) == Running(p) # {}

\* C22: a debounce timer started for a file by a Created or Modified event
\* leads to an upload_file call for the file, unless the file stops being a
\* local file or the process exits first; and an upload_file call leads to
\* the path having no entry in pending_timers, unless the process exits.
C22_EventLeadsToUpload ==
  \A p \in Files :
    /\ TimerWaits(p) ~> (Uploading(p) \/ ~IsFile(local, p) \/ phase = "exited")
    /\ Uploading(p) ~> (pending_timers[p] = 0 \/ phase = "exited")
C22_Witness ==
  /\ sync_direction = "two-way" /\ Watching
  /\ hist.env = 1 /\ WasHandled("modified")
  /\ IsFile(local, "a.txt") /\ UploadCalls("a.txt") = 2
  /\ ~TimersAlive /\ pending_timers["a.txt"] = 0

\* ---------------------------------------------------------------- renames
\* what on_created(dest) followed by on_deleted(src) can leave behind:
\* the call counters, the remote tree and _recently_deleted
CreatedThenDeleted(ev) ==
  LET afterCreated == IF LocalToRemote /\ ev.is_directory
                        THEN {remote, SyncDirectory(remote, ev.dest)}
                        ELSE {remote}
      afterDeleted(r1) ==
        IF DeletedReachesAdapter(ev) /\ FileExists(r1, ev.src)
          THEN {<<Called(calls, "delete_file", ev.src),
                  IF result THEN RemoveEntry(r1, ev.src) ELSE r1,
                  TombstoneAfterDelete(recently_deleted, ev.src, result)>> :
                    result \in BOOLEAN}
                 \cup {<<calls, r1, recently_deleted>>}
          ELSE {<<calls, r1, recently_deleted>>}
  IN UNION {afterDeleted(r1) : r1 \in afterCreated}
\* the event thread takes a Moved event
MovedHandled == Dispatch("moved") /\ events' = Tail(events) /\ phase' = "watch"

\* C23: handling a Moved event leaves the adapter calls, the remote tree and
\* the tombstones as on_created(dest) followed by on_deleted(src) would.
C23_MovedAsCreatedThenDeleted ==
  [][MovedHandled =>
       <<calls', remote', recently_deleted'>> \in CreatedThenDeleted(Head(events))]_vars

\* ------------------------------------------------------ dropped actions
\* the Timer t, due for a path that is not on the local side, runs its function
TimerRunsForMissing(t) ==
  /\ timers[t].st = "waiting" /\ timers[t].remaining = 0
  /\ ~Exists(local, timers[t].path)
  /\ timers'[t] # timers[t]
  /\ events' = events /\ phase' = phase

\* C24: a debounce timer that fires for a path that no longer exists locally
\* makes no upload_file call, raises nothing, and removes the path's entry
\* from pending_timers.
C24_MissingPathDropped ==
  [][\A t \in TimerIds :
       TimerRunsForMissing(t) =>
         /\ timers'[t].st = "free"
         /\ calls' = calls /\ remote' = remote
         /\ hist'.faults = hist.faults /\ ~hist'.escaped
         /\ pending_timers'[timers[t].path] = 0]_vars
C24_Witness ==
  /\ Watching /\ hist.env = 2 /\ hist.faults = 0
  /\ WasHandled("modified") /\ ~Exists(local, "a.txt")
  /\ ~TimersAlive /\ events = <<>>
  /\ pending_timers["a.txt"] = 0 /\ UploadCalls("a.txt") = 1

\* the event thread takes a Deleted event
DeletedHandled == Dispatch("deleted") /\ events' = Tail(events) /\ phase' = "watch"

\* C25: with sync_deletes on, a Deleted event for a path that is still on
\* the local side makes no delete_file call, changes nothing on the remote
\* and records no tombstone.
C25_DeleteVerified ==
  [][(DeletedHandled /\ sync_deletes /\ Exists(local, Head(events).src)) =>
       /\ calls' = calls /\ remote' = remote
       /\ recently_deleted' = recently_deleted]_vars
C25_Witness ==
  /\ sync_deletes /\ Watching /\ hist.env = 2 /\ hist.faults = 0
  /\ WasHandled("deleted") /\ IsFile(local, "a.txt") /\ IsFile(remote, "a.txt")
  /\ DeleteCalls("a.txt") = 0 /\ recently_deleted = {}

\* C26: on_deleted changes the tombstones only by recording the path whose
\* remote entry this very step has removed; when the remote entry does not
\* exist, delete_file returns False or the adapter raises, they stay as
\* they are.
C26_TombstoneOnlyWhenPropagated ==
  [][DeletedHandled =>
       IF Exists(remote, Head(events).src) /\ ~Exists(remote', Head(events).src)
         THEN recently_deleted' =
                SetKey(recently_deleted, TombstoneKey(Head(events).src))
         ELSE recently_deleted' = recently_deleted]_vars
C26_Witness ==
  /\ sync_deletes /\ Watching /\ hist.env = 1 /\ hist.faults = 1
  /\ WasHandled("deleted") /\ ~Exists(local, "a.txt") /\ IsFile(remote, "a.txt")
  /\ DeleteCalls("a.txt") = 1 /\ recently_deleted = {}
  /\ hist.init_remote = {"a.txt"}

\* ------------------------------------------------------ tombstone expiry
\* some tombstone for p, under whatever key, has outlived _delete_cooldown
ExpiredTombstone(p) ==
  \E x \in recently_deleted : x.key.path = p /\ x.age >= delete_cooldown
\* the scan hands p to _sync_file(from_remote=True), which checks the tombstones
GuardChecks(p) == ScanVisits(p) /\ ScanWantsFile(p) /\ NoFailureNow

\* C27: after _sync_file has checked a path whose tombstone has outlived
\* _delete_cooldown, no tombstone for the path is left.
C27_ExpiredTombstoneRemoved ==
  [][\A p \in Files :
       (GuardChecks(p) /\ ExpiredTombstone(p)) =>
          ~\E x \in recently_deleted' : x.key.path = p]_vars

\* ---------------------------------------------------------------- retries
\* the upload_file call of Timer t raises
UploadFails(t) ==
  timers[t].st = "running" /\ timers'[t].st = "free" /\ ~NoFailureNow
\* the download_file call in progress raises
DownloadFails == dl # NoDl /\ dl' = NoDl /\ ~NoFailureNow
\* the event thread takes a Created or Modified event for the file p
FileEventHandled(p) ==
  /\ EventHandled
  /\ Head(events).type \in {"created", "modified"}
  /\ ~Head(events).is_directory /\ Head(events).src = p

\* C28: a failed upload leaves the path without an entry in pending_timers,
\* a failed download leaves _syncing_from_remote False; after a failure a
\* Created/Modified event for a file still starts a timer for it, and a scan
\* that comes to a file missing on the local side (and not in cooldown)
\* still starts its download.
C28_FailureLeavesPathEligible ==
  [][/\ \A t \in TimerIds : UploadFails(t) => pending_timers'[timers[t].path] = 0
     /\ DownloadFails => ~syncing_from_remote'
     /\ \A p \in Files :
          hist.faults > 0 =>
            /\ (FileEventHandled(p) /\ LocalToRemote) =>
                 TimerWaits(p)' /\ pending_timers'[p] # 0
            /\ (/\ ScanVisits(p) /\ NoFailureNow
                /\ ~Exists(local, p) /\ IsFile(remote, p)
                /\ ~InCooldown(recently_deleted, p)) => DownloadStarts(p)]_vars
C28_Witness ==
  /\ sync_direction = "two-way" /\ hist.env = 0 /\ hist.faults = 1
  /\ dl.path = "a.txt" /\ DownloadCalls("a.txt") = 2
  /\ ~Exists(local, "a.txt") /\ UploadCalls("a.txt") = 0

\* ------------------------------------------------------------ concurrency
\* C29: a download_file call of the scan and an upload_file call of a
\* debounce timer for the same path are never executing at the same time.
C29_TransfersExclusive ==
  \A p \in Files : ~(dl # NoDl /\ dl.path = p /\ Uploading(p))

\* C30: the handling of an event on the notification thread makes no adapter
\* call: the call counters and the remote tree are as before.
C30_HandlersDoNoIo ==
  [][EventHandled => calls' = calls /\ remote' = remote]_vars

\* ------------------------------------------------------------ scan order
\* C31: when the delete-candidate check of a directory is made (the frame on
\* top of the scan returns), the listing has been gone through to its end
\* and every subdirectory it named has been scanned, its own
\* delete-candidate check included.
C31_SubdirectoriesFirst ==
  [][(scan # <<>> /\ scan' = Tail(scan) /\ phase' = "watch") =>
       /\ Head(scan).listed /\ Head(scan).items = <<>>
       /\ \A d \in Dirs :
            (Parent(d) = Head(scan).dir /\ Name(d) \in Head(scan).map)
            => d \in hist.checked]_vars
C31_Witness ==
  /\ sync_deletes /\ Len(scan) = 1 /\ Head(scan).dir = Root
  /\ Head(scan).items = <<>> /\ "d" \in Head(scan).map
  /\ "d" \in hist.checked /\ hist.faults = 0
  /\ IsFile(local, "d/b.txt")

\* ------------------------------------------------------------ the paths of a scan
\* Paths are sequences of segments here, and the listing holds the names as
\* the server gave them: RSyncProtocol.list_files makes an item of every
\* line of `ls -la`, the line of ".." included, and FTPProtocol.list_files
\* passes the names of NLST on.
MaxDepth == 3
ItemNames == {"..", "a.txt", "d"}
\* list_files: what one call may return, ".." being a directory
Listings == {l \in [ItemNames -> {"none", "file", "dir"}] : l[".."] # "file"}

\* _scan_remote_directory: relative_path of an item
relative_path(remote_dir, item_name) == remote_dir \o <<item_name>>

PathFrame(dir) == [dir |-> dir, listed |-> FALSE, ok |-> TRUE, items |-> <<>>, map |-> {}]

InitPaths ==
  /\ sync_direction \in {"two-way", "nas-to-local"}
  /\ sync_deletes \in BOOLEAN
  /\ phase = "watch"
  /\ exit_status = -1
  /\ connected = TRUE
  /\ walk = <<>>
  /\ local = NoTree
  /\ remote = NoTree
  /\ hist = InitHist(NoTree, NoTree, 0)
  /\ events = <<>>
  /\ timers = [t \in TimerIds |-> FreeTimer]
  /\ pending_timers = [f \in Files |-> 0]
  /\ syncing_from_remote = FALSE
  /\ recently_deleted = {}
  /\ since_check = 0
  /\ scan = <<>>
  /\ dl = NoDl
  /\ calls = [op \in CallOps |-> [e \in Entries |-> 0]]

\* _scan_remote_directory: list_files and the map of the names;
\* _check_remote_changes begins with the root
PathsList ==
  /\ IF scan = <<>> THEN TRUE ELSE ~Head(scan).listed
  /\ \E l \in Listings :
       LET stack == IF scan = <<>> THEN <<PathFrame(<<>>)>> ELSE scan
       IN  scan' = <<[Head(stack) EXCEPT
                        !.listed = TRUE,
                        !.items = SelectSeq(<<"a.txt", "d", "..">>, LAMBDA n : l[n] # "none"),
                        !.map = [n \in {m \in ItemNames : l[m] # "none"} |-> l[n]]]>>
                   \o Tail(stack)
  /\ hist' = [hist EXCEPT !.acted = <<>>]
  /\ UNCHANGED <<sync_direction, sync_deletes, phase, exit_status, connected, walk, local,
                 remote, events, timers, pending_timers, syncing_from_remote,
                 recently_deleted, since_check, dl, calls>>

\* _scan_remote_directory: one item of the listing; a directory is scanned
\* by a call of the function itself (the interpreter's recursion limit ends
\* the descent), a file that is missing locally or older is downloaded
PathsItem ==
  /\ scan # <<>> /\ Head(scan).listed /\ Head(scan).items # <<>>
  /\ LET item_name == Head(Head(scan).items)
         fr == [Head(scan) EXCEPT !.items = Tail(@)]
         rel == relative_path(fr.dir, item_name)
     IN  IF fr.map[item_name] = "dir"
           THEN /\ scan' = IF Len(scan) < MaxDepth
                             THEN <<PathFrame(rel), fr>> \o Tail(scan)
                             ELSE Tail(scan)
                /\ hist' = [hist EXCEPT !.acted = <<>>]
           ELSE /\ scan' = <<fr>> \o Tail(scan)
                /\ \E wanted \in BOOLEAN :
                     hist' = [hist EXCEPT
                                !.acted = IF wanted
                                            THEN <<[op |-> "download_file", path |-> rel]>>
                                            ELSE <<>>]
  /\ UNCHANGED <<sync_direction, sync_deletes, phase, exit_status, connected, walk, local,
                 remote, events, timers, pending_timers, syncing_from_remote,
                 recently_deleted, since_check, dl, calls>>

\* _check_local_files_to_delete: a name of the local directory (Path.iterdir
\* never yields "..") that the listing did not hold is unlinked
PathsDeleteCheck ==
  /\ scan # <<>> /\ Head(scan).listed /\ Head(scan).items = <<>>
  /\ scan' = Tail(scan)
  /\ \E names \in SUBSET (ItemNames \ {".."}) :
       LET items_to_delete == names \ DOMAIN Head(scan).map
       IN  hist' = [hist EXCEPT
                      !.acted = IF sync_deletes /\ items_to_delete # {}
                                  THEN <<[op |-> "unlink",
                                          path |-> relative_path(Head(scan).dir,
                                                     CHOOSE n \in items_to_delete : TRUE)]>>
                                  ELSE <<>>]
  /\ UNCHANGED <<sync_direction, sync_deletes, phase, exit_status, connected, walk, local,
                 remote, events, timers, pending_timers, syncing_from_remote,
                 recently_deleted, since_check, dl, calls>>

SpecPaths == InitPaths /\ [][PathsList \/ PathsItem \/ PathsDeleteCheck]_vars

\* C32: the scan downloads or unlinks no path that holds a parent-traversal
\* segment.
C32_PathsStayInside ==
  \A i \in 1..Len(hist.acted) :
    \A j \in 1..Len(hist.acted[i].path) : hist.acted[i].path[j] # ".."

\* ------------------------------------------------------------ uploads and the remote copy
\* C33: no upload is started, by a Timer callback or by the initial pass,
\* for a file whose remote copy is strictly newer than the local copy.
C33_UploadKeepsNewerRemote ==
  [][\A p \in Files :
       (\/ \E t \in TimerIds :
             timers[t].st = "waiting" /\ timers'[t].st = "running" /\ timers[t].path = p
        \/ /\ phase = "initial" /\ walk # <<>> /\ walk' = Tail(walk)
           /\ IF walk # <<>> THEN Head(walk) = p ELSE FALSE
           /\ IsFile(local, p)
           /\ calls'["upload_file"][p] # calls["upload_file"][p])
       => ~(IsFile(local, p) /\ IsFile(remote, p) /\ remote[p].mtime > local[p].mtime)]_vars

\* ------------------------------------------------------------ a listing that failed
\* C34: the delete-candidate check of a directory removes a local entry only
\* when the list_files call of that directory succeeded.
C34_FailedListingDeletesNothing ==
  [][\A e \in Entries :
       ScanRemoves(e) => IF scan # <<>> THEN Head(scan).ok ELSE TRUE]_vars

\* ------------------------------------------------------------ a deletion during a download
\* C35: with sync_deletes on and an uploading direction, the handling of the
\* Deleted event of a file p that the user deleted and that is present on
\* the remote calls delete_file(p) also while a download of another path is
\* executing (on_deleted is the only caller of delete_file for that event,
\* so a call not made by the handling step is never made).
C35_DeletedDuringDownloadPropagates ==
  [][\A p \in Files :
       (/\ DeletedHandled
        /\ IF events # <<>> THEN Head(events).src = p /\ ~Head(events).echo ELSE FALSE
        /\ dl # NoDl /\ dl.path # p
        /\ sync_deletes /\ LocalToRemote
        /\ ~Exists(local, p) /\ IsFile(remote, p)
        /\ NoFailureNow)
       => calls'["delete_file"][p] # calls["delete_file"][p]]_vars

\* ------------------------------------------------------------ a deletion during an upload
\* C36: with sync_deletes on and local-to-nas, once the engine is at rest
\* after the user deleted a.txt, the Deleted event has been handled and no
\* adapter call failed, a.txt is absent from the remote.
C36_DeletedStaysDeleted ==
  (/\ sync_deletes /\ LocalToRemote /\ Watching /\ Settled
   /\ ~Exists(local, "a.txt") /\ WasHandled("deleted")
   /\ hist.faults = 0)
  => ~Exists(remote, "a.txt")

\* ------------------------------------------------------------ coming to rest
\* the trees of SpecConverge, nobody but the engine writing, with the
\* scheduling of SpecLive
SpecConvergeFair == InitConverge /\ [][NextConverge]_vars /\ Fairness

\* C37: in two-way with nobody but the engine writing, the transfers of the
\* file that was only on the remote come to an end: from some point on
\* neither a download nor an upload of d/b.txt is executing.
C37_EventuallyQuiescent ==
  <>[](~Uploading("d/b.txt") /\ ~(dl # NoDl /\ dl.path = "d/b.txt"))

\* ------------------------------------------------------------ nas-to-local leaves the remote alone
\* C38: with nas-to-local no step of the engine, from startup on, calls
\* upload_file or delete_file or changes the remote tree.
C38_NasToLocalReadsOnly ==
  [][(sync_direction = "nas-to-local" /\ hist'.env = hist.env) =>
       /\ calls'["upload_file"] = calls["upload_file"]
       /\ calls'["delete_file"] = calls["delete_file"]
       /\ remote' = remote]_vars

\* ------------------------------------------------------------ the key of a tombstone
\* C39: a tombstone that on_deleted recorded for an entry and that is still
\* within delete_cooldown is found by the lookup that
\* _sync_file(from_remote=True) makes for that entry.
C39_TombstoneFoundByGuard ==
  \A x \in recently_deleted :
    x.age < delete_cooldown => InCooldown(recently_deleted, x.key.path)

\* ------------------------------------------------------------ pending_timers and the live timers
\* C40: a path has at most one timer that is started and not finished, and
\* pending_timers[path] refers to it.
C40_PendingMatchesLive ==
  \A p \in Files :
    LET live == {t \in TimerIds : timers[t].st # "free" /\ timers[t].path = p}
    IN  /\ Cardinality(live) <= 1
        /\ \A t \in live : pending_timers[p] = t
====
